---------------------------- MODULE Spec2Model ----------------------------
(***************************************************************************)
(* A model of the ABS MCP server's hybrid execution path.                  *)
(*                                                                         *)
(*   - HybridExecutionService (the spec store and executeSpec) and the     *)
(*     two tool handlers of index.ts that call it: specification           *)
(*     SpecService.                                                        *)
(*   - HybridMCPClient (the line-framed JSON-RPC client: identifier        *)
(*     allocation, the response-handler table, the 30 s timers, close and  *)
(*     the server's exit event): specification SpecClient.                 *)
(*                                                                         *)
(* JavaScript values are modelled as records, so that a missing property   *)
(* reads as Undefined and a conversion (JSON.stringify, JSON.parse,        *)
(* toISOString, Date parsing) is a computation the checks can refute.      *)
(***************************************************************************)
EXTENDS Integers, Sequences, FiniteSets, TLC

(***************************************************************************)
(* Bounds of the model.                                                    *)
(***************************************************************************)
\* Number of UUIDs crypto.randomUUID() hands out in a run.
MaxSpecs == 2
\* Number of executeSpec invocations in a run.
MaxCalls == 2
\* The clock runs 0..MaxTime.
MaxTime == 1
\* Number of observations of the largest remote document.
MaxObs == 2
\* Number of sendRequest calls of a client in a run.
MaxSends == 3
\* Number of server processes a client spawns in a run.
MaxProcs == 2

\* lines a server process writes to the pipe
MaxLines == 2

(***************************************************************************)
(* Program constants.                                                      *)
(***************************************************************************)
ABS_API_BASE == "https://data.api.abs.gov.au"

(***************************************************************************)
(* JavaScript values.                                                      *)
(***************************************************************************)
Undefined == [t |-> "undefined"]

Str(s) == [t |-> "string", v |-> s]

Num(n) == [t |-> "number", n |-> n]

\* obj.f for a possibly missing property f (and args?.f for a missing obj)
Get(obj, f) == IF f \in DOMAIN obj THEN obj[f] ELSE Undefined

\* !v
Falsy(v) == \/ v = Undefined
            \/ v = Str("")
            \/ v = Num(0)

\* `${v}` in a template string
Template(v) == IF v.t = "string" THEN v.v
               ELSE IF v.t = "number" THEN "<number>"
               ELSE "undefined"

\* JSON.stringify(v, null, 2): undefined for undefined, a text otherwise
JSONStringify(v) == IF v = Undefined THEN Undefined
                    ELSE [t |-> "json", of |-> v]

\* JSON.parse(text): the value a text produced by JSON.stringify encodes,
\* a SyntaxError for anything else (undefined is coerced to "undefined")
SyntaxError == [t |-> "SyntaxError"]

JSONParse(text) == IF Get(text, "t") = "json" THEN text.of ELSE SyntaxError

\* new Date(ms).toISOString() and new Date(iso).getTime()
ToISOString(ms) == [t |-> "iso", ms |-> ms]

DateParse(iso) == iso.ms

(***************************************************************************)
(* State.                                                                  *)
(***************************************************************************)
VARIABLES
  \* HybridExecutionService (one instance per server process)
  heap,        \* every ExecutionSpec object created, by executionId
  executions,  \* keys of the Map this.executions
  issued,      \* UUIDs crypto.randomUUID() has returned
  inflight,    \* executeSpec calls awaiting axios.get, per spec object held
  remoteCalls, \* number of axios.get requests issued
  now,         \* Date.now()
  ret          \* the call that returned in the step just taken, its
               \* argument and the value returned or thrown; or the
               \* axios.get request the step issued

svcVars == <<heap, executions, issued, inflight, remoteCalls, now, ret>>

VARIABLES
  \* HybridMCPClient
  server,           \* this.server: 0 for null, or the process spawned
  messageId,        \* this.messageId
  responseHandlers, \* this.responseHandlers: id -> the request it resolves
  buffer,           \* this.buffer
  initialized,      \* this.initialized
  \* the client's environment
  requests,         \* the promises sendRequest returned, in call order,
                    \* each with its timer
  connecting,       \* connect() calls in their one-second wait
  spawned,          \* number of server processes spawned so far
  running           \* processes whose exit event is still to come

cliVars == <<server, messageId, responseHandlers, buffer, initialized,
             requests, connecting, spawned, running>>

VARIABLES
  \* the pipe from the server's stdout to the client
  stream,     \* the bytes the server process has written
  pos,        \* how many of them 'data' events have handed over
  delivered,  \* the responses handleData has passed to handleResponse
  received    \* the text handleData has been called with, chunk after chunk

wireVars == <<stream, pos, delivered, received>>

VARIABLES
  \* src/handlers/queryDataset.ts
  fetching    \* handleQueryDatasetWithService calls awaiting axios.get, by
              \* the executionId of the spec each generated

hdlVars == <<fetching>>

vars == <<heap, executions, issued, inflight, remoteCalls, now, ret,
          server, messageId, responseHandlers, buffer, initialized,
          requests, connecting, spawned, running,
          stream, pos, delivered, received, fetching>>

\* no call returned in the step just taken
NoReturn == [op |-> "none"]

Returned(op, arg, value) == [op |-> op, arg |-> arg, ok |-> TRUE, value |-> value]

Thrown(op, arg, error) == [op |-> op, arg |-> arg, ok |-> FALSE, value |-> error]

(***************************************************************************)
(* src/services/HybridExecutionService.ts                                  *)
(***************************************************************************)
DEFAULT_TTL == 15 * 60 * 1000

\* crypto.randomUUID(): a version 4 UUID, one that was not returned before.
\* UUIDs are opaque, so the i-th call is taken to return the i-th of them.
Uuid(i) == [t |-> "string", uuid |-> i]

UUIDs == {Uuid(i) : i \in 1..MaxSpecs}

\* an identifier source that can repeat itself
RepeatingUUID == UUIDs

RandomUUID == {Uuid(i) : i \in {Cardinality(issued) + 1} \cap (1..MaxSpecs)}

\* this.executions as a mapping: the stored specs
Store == [id \in executions |-> heap[id]]

\* buildApiCall(toolName, parameters): the descriptor, or the Error thrown
BuildApiCall(toolName, parameters) ==
  IF toolName = "query_dataset"
  THEN [ok |-> TRUE,
        apiCall |-> [method |-> "GET",
                     url |-> <<ABS_API_BASE, "/rest/data/",
                               Template(Get(parameters, "datasetId")), "/all">>,
                     params |-> [format |-> "jsondata",
                                 dimensionAtObservation |-> "AllDimensions"]]]
  ELSE [ok |-> FALSE, error |-> <<"Unknown tool: ", toolName>>]

\* the ExecutionSpec literal of generateExecutionSpec
NewSpec(executionId, request, apiCall) ==
  [executionId |-> executionId,
   toolName    |-> request.toolName,
   parameters  |-> request.parameters,
   apiCall     |-> apiCall,
   timestamp   |-> ToISOString(now),
   status      |-> "pending",
   ttl         |-> DEFAULT_TTL]

\* this.executions.set(executionId, spec)
MapSet(executionId, spec) ==
  /\ heap' = [id \in DOMAIN heap \cup {executionId} |->
                IF id = executionId THEN spec ELSE heap[id]]
  /\ executions' = executions \cup {executionId}
  /\ inflight' = [id \in DOMAIN heap \cup {executionId} |->
                    IF id \in DOMAIN heap THEN inflight[id] ELSE 0]

\* a generateExecutionSpec that stores the spec before it builds the API
\* call
GenerateStoresFirst(request) ==
  \E executionId \in RandomUUID :
    LET built == BuildApiCall(request.toolName, request.parameters) IN
    /\ issued' = issued \cup {executionId}
    /\ MapSet(executionId,
              NewSpec(executionId, request,
                      IF built.ok THEN built.apiCall ELSE Undefined))
    /\ ret' = IF built.ok
              THEN Returned("generateExecutionSpec", request,
                            NewSpec(executionId, request, built.apiCall))
              ELSE Thrown("generateExecutionSpec", request, built.error)

\* generateExecutionSpec(request): its effect on the service, and the
\* spec it returns or the Error it throws
GenerateExecutionSpec(request) ==
  \E executionId \in RandomUUID :
    LET built == BuildApiCall(request.toolName, request.parameters) IN
    /\ issued' = issued \cup {executionId}
    /\ IF built.ok
       THEN LET spec == NewSpec(executionId, request, built.apiCall) IN
            /\ MapSet(executionId, spec)
            /\ ret' = Returned("generateExecutionSpec", request, spec)
       ELSE /\ ret' = Thrown("generateExecutionSpec", request, built.error)
            /\ UNCHANGED <<heap, executions, inflight>>

\* a lookup that still finds a spec cleanupOldSpecs deleted
GetDeletedSpec(executionId) ==
  IF executionId \in DOMAIN heap THEN heap[executionId] ELSE Undefined

\* a lookup that does not return a spec older than its ttl
GetUnexpiredSpec(executionId) ==
  IF executionId \in executions
       /\ ~(now - DateParse(heap[executionId].timestamp) > heap[executionId].ttl)
  THEN heap[executionId] ELSE Undefined

\* getExecutionSpec(executionId), and this.executions.get(executionId)
GetExecutionSpec(executionId) ==
  IF executionId \in executions THEN heap[executionId] ELSE Undefined

\* response.data?.data?.dataSets?.[0]?.observations
Observations(data) == Get(data, "observations")

\* a count that only tells whether there are observations
RecordCountPresence(data) ==
  IF Falsy(Observations(data)) THEN 0
  ELSE IF Observations(data).keys = {} THEN 0 ELSE 1

\* observations ? Object.keys(observations).length : 0
RecordCount(data) ==
  IF Falsy(Observations(data)) THEN 0
  ELSE Cardinality(Observations(data).keys)

\* the three ExecutionResult literals of executeSpec
NotFoundResult(executionId) ==
  [executionId |-> executionId,
   status      |-> "error",
   error       |-> "Execution spec not found"]

\* the success literal, had it kept the line `data: response.data`
SuccessResultWithData(executionId, data) ==
  [executionId |-> executionId,
   status      |-> "success",
   recordCount |-> RecordCount(data),
   data        |-> data,
   executedAt  |-> ToISOString(now)]

SuccessResult(executionId, data) ==
  [executionId |-> executionId,
   status      |-> "success",
   recordCount |-> RecordCount(data),
   executedAt  |-> ToISOString(now)]

ErrorResult(executionId, error) ==
  [executionId |-> executionId,
   status      |-> "error",
   error       |-> error.message]

\* a status update that also stores the url with its query string
SetStatusAndUrl(executionId, status) ==
  heap' = [heap EXCEPT ![executionId].status = status,
                       ![executionId].apiCall.url = @ \o <<"?format=jsondata">>]

\* a status update that also renews the timestamp
SetStatusAndTouch(executionId, status) ==
  heap' = [heap EXCEPT ![executionId].status = status,
                       ![executionId].timestamp = ToISOString(now)]

\* a status kept in one place for all the specs
SetStatusOfAll(executionId, status) ==
  heap' = [id \in DOMAIN heap |-> [heap[id] EXCEPT !.status = status]]

\* spec.status = status, on the object the call holds
SetStatus(executionId, status) ==
  heap' = [heap EXCEPT ![executionId].status = status]

\* what axios.get can come back with: a document without an observations
\* collection, one with an empty collection, one with MaxObs observations,
\* or a rejection
AxiosResponses ==
  {[ok |-> TRUE, data |-> [header |-> "no dataSets"]]}
  \cup {[ok |-> TRUE,
         data |-> [observations |-> [t |-> "object", keys |-> 1..n]]] :
          n \in {0, MaxObs}}
  \cup {[ok |-> FALSE, message |-> "Request failed with status code 500"]}

\* new URLSearchParams(params || {}).toString()
URLSearchParams(params) ==
  [t |-> "query", of |-> IF Falsy(params) THEN [x \in {} |-> ""] ELSE params]

\* `${spec.apiCall.url}?${new URLSearchParams(spec.apiCall.params || {})}`
RequestUrl(spec) ==
  spec.apiCall.url \o <<"?", URLSearchParams(Get(spec.apiCall, "params"))>>

\* the step just taken called axios.get(url)
Requested(url) == [op |-> "axios.get", arg |-> url]

\* executeSpec(executionId) up to its await: the lookup, then the not-found
\* return, or the status update and the axios.get request
ExecuteSpecStart(executionId) ==
  /\ UNCHANGED <<cliVars, wireVars, hdlVars>>
  /\ IF GetExecutionSpec(executionId) = Undefined
     THEN /\ ret' = Returned("executeSpec", executionId,
                             NotFoundResult(executionId))
          /\ UNCHANGED <<heap, executions, issued, inflight, remoteCalls, now>>
     ELSE /\ remoteCalls < MaxCalls
          /\ SetStatus(executionId, "executing")
          /\ remoteCalls' = remoteCalls + 1
          /\ inflight' = [inflight EXCEPT ![executionId] = @ + 1]
          /\ ret' = Requested(RequestUrl(heap[executionId]))
          /\ UNCHANGED <<executions, issued, now>>

\* an executeSpec that takes the spec out of the store once it succeeded
ExecuteSpecFinishConsumes(executionId, response) ==
  /\ inflight[executionId] > 0
  /\ inflight' = [inflight EXCEPT ![executionId] = @ - 1]
  /\ IF response.ok
     THEN /\ SetStatus(executionId, "success")
          /\ executions' = executions \ {executionId}
          /\ ret' = Returned("executeSpec", executionId,
                             SuccessResult(executionId, response.data))
     ELSE /\ SetStatus(executionId, "error")
          /\ executions' = executions
          /\ ret' = Returned("executeSpec", executionId,
                             ErrorResult(executionId, response))
  /\ UNCHANGED <<issued, remoteCalls, now>>
  /\ UNCHANGED <<cliVars, wireVars, hdlVars>>

\* an executeSpec that lets the rejection of axios.get through
ExecuteSpecFinishThrows(executionId, response) ==
  /\ inflight[executionId] > 0
  /\ inflight' = [inflight EXCEPT ![executionId] = @ - 1]
  /\ IF response.ok
     THEN /\ SetStatus(executionId, "success")
          /\ ret' = Returned("executeSpec", executionId,
                             SuccessResult(executionId, response.data))
     ELSE /\ SetStatus(executionId, "error")
          /\ ret' = Thrown("executeSpec", executionId, response)
  /\ UNCHANGED <<executions, issued, remoteCalls, now>>
  /\ UNCHANGED <<cliVars, wireVars, hdlVars>>

\* an executeSpec that requests once more when axios.get rejected
ExecuteSpecFinishRetries(executionId, response) ==
  /\ inflight[executionId] > 0
  /\ IF response.ok
     THEN /\ SetStatus(executionId, "success")
          /\ inflight' = [inflight EXCEPT ![executionId] = @ - 1]
          /\ ret' = Returned("executeSpec", executionId,
                             SuccessResult(executionId, response.data))
          /\ UNCHANGED remoteCalls
     ELSE /\ remoteCalls' = remoteCalls + 1
          /\ ret' = Requested(RequestUrl(heap[executionId]))
          /\ UNCHANGED <<heap, inflight>>
  /\ UNCHANGED <<executions, issued, now>>
  /\ UNCHANGED <<cliVars, wireVars, hdlVars>>

\* an executeSpec that stores the spec again when its request settled
ExecuteSpecFinishStores(executionId, response) ==
  /\ inflight[executionId] > 0
  /\ inflight' = [inflight EXCEPT ![executionId] = @ - 1]
  /\ executions' = executions \cup {executionId}
  /\ IF response.ok
     THEN /\ SetStatus(executionId, "success")
          /\ ret' = Returned("executeSpec", executionId,
                             SuccessResult(executionId, response.data))
     ELSE /\ SetStatus(executionId, "error")
          /\ ret' = Returned("executeSpec", executionId,
                             ErrorResult(executionId, response))
  /\ UNCHANGED <<issued, remoteCalls, now>>
  /\ UNCHANGED <<cliVars, wireVars, hdlVars>>

\* executeSpec after its await: axios.get resolved or rejected
ExecuteSpecFinish(executionId, response) ==
  /\ inflight[executionId] > 0
  /\ inflight' = [inflight EXCEPT ![executionId] = @ - 1]
  /\ IF response.ok
     THEN /\ SetStatus(executionId, "success")
          /\ ret' = Returned("executeSpec", executionId,
                             SuccessResult(executionId, response.data))
     ELSE /\ SetStatus(executionId, "error")
          /\ ret' = Returned("executeSpec", executionId,
                             ErrorResult(executionId, response))
  /\ UNCHANGED <<executions, issued, remoteCalls, now>>
  /\ UNCHANGED <<cliVars, wireVars, hdlVars>>

\* a sweep that also deletes the specs whose age equals maxAge
CleanupOldSpecsInclusive(maxAge) ==
  /\ executions' = {id \in executions :
                      ~(now - DateParse(heap[id].timestamp) >= maxAge)}
  /\ ret' = Returned("cleanupOldSpecs", maxAge, Undefined)
  /\ UNCHANGED <<heap, issued, inflight, remoteCalls, now>>
  /\ UNCHANGED <<cliVars, wireVars, hdlVars>>

\* cleanupOldSpecs(maxAge)
CleanupOldSpecs(maxAge) ==
  /\ executions' = {id \in executions :
                      ~(now - DateParse(heap[id].timestamp) > maxAge)}
  /\ ret' = Returned("cleanupOldSpecs", maxAge, Undefined)
  /\ UNCHANGED <<heap, issued, inflight, remoteCalls, now>>
  /\ UNCHANGED <<cliVars, wireVars, hdlVars>>

(***************************************************************************)
(* src/index.ts: the CallTool handler and its two tool handlers            *)
(***************************************************************************)
\* the catch block of the CallTool handler: the Error it rethrows
ToolError(name, message) ==
  <<"Error executing tool ", name, ": ", message>>

\* the value handleQueryDataset returns for the spec it generated
QueryDatasetReply(spec, args) ==
  [content |-> [type |-> "text",
     text |-> JSONStringify([executionId |-> spec.executionId,
                             toolName    |-> spec.toolName,
                             parameters  |-> spec.parameters,
                             apiCall     |-> spec.apiCall,
                             timestamp   |-> spec.timestamp,
                             ttl         |-> spec.ttl,
                             status      |-> "ready",
                             datasetId   |-> args.datasetId,
                             message     |-> "Use execute_direct tool with this executionId to fetch data"])],
   meta |-> spec]

\* a handleQueryDataset that passes its arguments on unchecked
HandleQueryDatasetUnchecked(args) ==
  /\ GenerateExecutionSpec([toolName |-> "query_dataset", parameters |-> args])
  /\ UNCHANGED <<remoteCalls, now>>

\* handleQueryDataset(args) up to its return statement
HandleQueryDataset(args) ==
  IF Falsy(Get(args, "datasetId")) \/ Get(args, "datasetId").t # "string"
  THEN /\ ret' = Thrown("tools/call", <<"query_dataset", args>>,
                        ToolError("query_dataset",
                                  "datasetId is required and must be a string"))
       /\ UNCHANGED <<heap, executions, issued, inflight, remoteCalls, now>>
  ELSE /\ GenerateExecutionSpec([toolName |-> "query_dataset", parameters |-> args])
       /\ UNCHANGED <<remoteCalls, now>>

\* a handleExecuteDirect that returns the ExecutionResult as content,
\* whatever its status
ExecuteDirectReplyAsData(result) ==
  [ok |-> TRUE,
   value |-> [content |-> [type |-> "text", text |-> JSONStringify(result)]]]

\* what handleExecuteDirect makes of the ExecutionResult that executeSpec
\* returned to it: the Error it throws, or the content it returns
ExecuteDirectReply(result) ==
  IF result.status = "error"
  THEN [ok |-> FALSE,
        value |-> ToolError("execute_direct",
                            IF "error" \in DOMAIN result
                            THEN result.error ELSE "Failed to execute query")]
  ELSE [ok |-> TRUE,
        value |-> [content |-> [type |-> "text",
                                text |-> JSONStringify(Get(result, "data"))]]]

\* handleExecuteDirect(args) up to its await
HandleExecuteDirect(args) ==
  IF Falsy(Get(args, "executionId"))
  THEN /\ ret' = Thrown("tools/call", <<"execute_direct", args>>,
                        ToolError("execute_direct", "executionId is required"))
       /\ UNCHANGED <<heap, executions, issued, inflight, remoteCalls, now>>
  ELSE ExecuteSpecStart(args.executionId)

\* the CallTool request handler
CallTool(name, args) ==
  /\ UNCHANGED <<cliVars, wireVars, hdlVars>>
  /\ CASE name = "query_dataset" -> HandleQueryDataset(args)
       [] name = "execute_direct" -> HandleExecuteDirect(args)
       [] OTHER ->
            /\ ret' = Thrown("tools/call", <<name, args>>,
                             ToolError(name, <<"Unknown tool: ", name>>))
            /\ UNCHANGED <<heap, executions, issued, inflight, remoteCalls, now>>

\* the answer of the CallTool handler in the step just taken, when every
\* call of the service is one a tool handler made
ToolAnswer ==
  CASE ret.op = "executeSpec" ->
         [op |-> "tools/call",
          arg |-> <<"execute_direct", [executionId |-> ret.arg]>>,
          ok |-> ExecuteDirectReply(ret.value).ok,
          value |-> ExecuteDirectReply(ret.value).value]
    [] ret.op = "generateExecutionSpec" ->
         [op |-> "tools/call",
          arg |-> <<"query_dataset", ret.arg.parameters>>,
          ok |-> TRUE,
          value |-> QueryDatasetReply(ret.value, ret.arg.parameters)]
    [] OTHER -> ret

(***************************************************************************)
(* src/handlers/queryDataset.ts: the handler built on the service          *)
(***************************************************************************)
\* the Error the catch block of handleQueryDatasetWithService rethrows
AbsApiError(response) ==
  IF Get(response, "status") # Undefined
  THEN <<"ABS API Error: ", response.status>>
  ELSE response.message

\* the value handleQueryDatasetWithService returns
HybridResponse(spec, data) ==
  [content |-> [type |-> "text",
     text |-> JSONStringify([executionId |-> spec.executionId,
                             status      |-> "success",
                             datasetId   |-> spec.parameters.datasetId,
                             recordCount |-> RecordCount(data),
                             apiCall     |-> spec.apiCall])]]

\* handleQueryDatasetWithService(args) up to its await: the validation,
\* generateExecutionSpec, and the axios.get request
QueryDatasetWithServiceStart(args) ==
  /\ UNCHANGED <<cliVars, wireVars>>
  /\ IF Falsy(Get(args, "datasetId")) \/ Get(args, "datasetId").t # "string"
     THEN /\ ret' = Thrown("handleQueryDatasetWithService", args,
                           "datasetId is required and must be a string")
          /\ UNCHANGED <<heap, executions, issued, inflight, remoteCalls, now,
                         fetching>>
     ELSE /\ remoteCalls < MaxCalls
          /\ GenerateExecutionSpec([toolName |-> "query_dataset",
                                    parameters |-> [datasetId |-> args.datasetId]])
          /\ remoteCalls' = remoteCalls + 1
          /\ fetching' = fetching \cup (issued' \ issued)
          /\ UNCHANGED now

\* handleQueryDatasetWithService after its await: axios.get resolved or
\* rejected
QueryDatasetWithServiceFinish(executionId, response) ==
  /\ executionId \in fetching
  /\ fetching' = fetching \ {executionId}
  /\ ret' = IF response.ok
            THEN Returned("handleQueryDatasetWithService", executionId,
                          HybridResponse(heap[executionId], response.data))
            ELSE Thrown("handleQueryDatasetWithService", executionId,
                        AbsApiError(response))
  /\ UNCHANGED <<heap, executions, issued, inflight, remoteCalls, now>>
  /\ UNCHANGED <<cliVars, wireVars>>

(***************************************************************************)
(* Inputs.                                                                 *)
(***************************************************************************)
ToolNames == {"query_dataset", "list_dataflows"}

\* parameters of a generateExecutionSpec request
Parameters == {[datasetId |-> Str("A")], [format |-> Str("csv")]}

\* arguments of a query_dataset tool call
DatasetArgs == {[datasetId |-> Str("A")],
                [datasetId |-> Str("")],
                [datasetId |-> Num(5)],
                [format |-> Str("csv")]}

\* identifiers a caller can pass to executeSpec: one it was given, or one
\* that was never generated
ExecutionIds == issued \cup {Str("unknown-id")}

\* arguments of an execute_direct tool call
ExecuteArgs == {[executionId |-> id] : id \in ExecutionIds}
               \cup {[format |-> Str("csv")]}

(***************************************************************************)
(* The service, called directly (SpecService) and through the server's     *)
(* CallTool handler (SpecTool).                                            *)
(***************************************************************************)
\* a call of generateExecutionSpec
Generate(request) ==
  /\ GenerateExecutionSpec(request)
  /\ UNCHANGED <<remoteCalls, now>>
  /\ UNCHANGED <<cliVars, wireVars, hdlVars>>

\* Array.from(this.executions.values()): the stored specs in the order of
\* their insertion, which is the order their identifiers were issued in
ActiveSpecs ==
  [i \in 1..Cardinality(executions) |->
     heap[CHOOSE id \in executions :
            Cardinality({other \in executions : other.uuid < id.uuid}) = i - 1]]

\* a call of getExecutionSpec
GetSpec(executionId) ==
  /\ ret' = Returned("getExecutionSpec", executionId,
                     GetExecutionSpec(executionId))
  /\ UNCHANGED <<heap, executions, issued, inflight, remoteCalls, now>>
  /\ UNCHANGED <<cliVars, wireVars, hdlVars>>

\* a call of getActiveSpecs
GetActiveSpecs ==
  /\ ret' = Returned("getActiveSpecs", Undefined, ActiveSpecs)
  /\ UNCHANGED <<heap, executions, issued, inflight, remoteCalls, now>>
  /\ UNCHANGED <<cliVars, wireVars, hdlVars>>

\* time passes
Tick ==
  /\ now < MaxTime
  /\ now' = now + 1
  /\ ret' = NoReturn
  /\ UNCHANGED <<heap, executions, issued, inflight, remoteCalls>>
  /\ UNCHANGED <<cliVars, wireVars, hdlVars>>

\* more time passes than DEFAULT_TTL
Expire ==
  /\ now < MaxTime * (DEFAULT_TTL + 1)
  /\ now' = now + DEFAULT_TTL + 1
  /\ ret' = NoReturn
  /\ UNCHANGED <<heap, executions, issued, inflight, remoteCalls>>
  /\ UNCHANGED <<cliVars, wireVars, hdlVars>>

\* arguments of cleanupOldSpecs when specs can be older than DEFAULT_TTL:
\* 0, and DEFAULT_TTL, which is also the default
MaxAges == {0, DEFAULT_TTL}

InitService ==
  /\ heap = [id \in {} |-> Undefined]
  /\ executions = {}
  /\ issued = {}
  /\ inflight = [id \in {} |-> 0]
  /\ remoteCalls = 0
  /\ now = 0
  /\ ret = NoReturn

(***************************************************************************)
(* src/client/HybridMCPClient.ts: the channel.  Text on the server's       *)
(* stdout is a sequence of characters; the JSON text of a response takes   *)
(* two of them (its opening part, which carries the id, and its closing    *)
(* brace), so that a chunk boundary can fall inside a message.             *)
(***************************************************************************)
NL == [ch |-> "\n", id |-> 0, kind |-> ""]

SP == [ch |-> " ", id |-> 0, kind |-> ""]

Junk == [ch |-> "x", id |-> 0, kind |-> ""]

Open(id, kind) == [ch |-> "{", id |-> id, kind |-> kind]

Brace == [ch |-> "}", id |-> 0, kind |-> ""]

\* JSON.stringify(response) + '\n' as the server writes it; id 0 stands
\* for a message without an id
ResponseLine(id, kind) == <<Open(id, kind), Brace, NL>>

RECURSIVE Split(_)
\* text.split('\n')
Split(text) ==
  IF \A i \in 1..Len(text) : text[i] # NL
  THEN <<text>>
  ELSE LET n == CHOOSE i \in 1..Len(text) :
                  text[i] = NL /\ \A j \in 1..(i - 1) : text[j] # NL
       IN <<SubSeq(text, 1, n - 1)>> \o Split(SubSeq(text, n + 1, Len(text)))

RECURSIVE NoSpace(_)
\* the characters of a text that are not white space
NoSpace(text) ==
  IF text = <<>> THEN <<>>
  ELSE (IF text[1] = SP THEN <<>> ELSE <<text[1]>>) \o NoSpace(Tail(text))

\* a character outside ASCII, its two bytes in UTF-8, and U+FFFD, the
\* character a decoder puts for bytes that are no character
Accented == [ch |-> "e-acute", id |-> 0, kind |-> ""]

Lead == [ch |-> "0xC3", id |-> 0, kind |-> ""]

Cont == [ch |-> "0xA9", id |-> 0, kind |-> ""]

Replacement == [ch |-> "U+FFFD", id |-> 0, kind |-> ""]

RECURSIVE DataToString(_)
\* data.toString(): the bytes of one chunk decoded as UTF-8
DataToString(bytes) ==
  IF bytes = <<>> THEN <<>>
  ELSE IF bytes[1] = Lead /\ Len(bytes) >= 2 /\ bytes[2] = Cont
       THEN <<Accented>> \o DataToString(SubSeq(bytes, 3, Len(bytes)))
       ELSE IF bytes[1] \in {Lead, Cont}
            THEN <<Replacement>> \o DataToString(Tail(bytes))
            ELSE <<bytes[1]>> \o DataToString(Tail(bytes))

\* a JSON.parse that takes a text without its closing brace for an object
JSONParseLenient(line) ==
  LET t == NoSpace(line) IN
  IF Len(t) >= 1 /\ t[1].ch = "{"
  THEN [t |-> "object", id |-> t[1].id, kind |-> t[1].kind, text |-> <<>>]
  ELSE SyntaxError

\* JSON.parse(line) as MCPResponse: the object, with the characters of its
\* strings, or the SyntaxError thrown
JSONParseLine(line) ==
  LET t == NoSpace(line) IN
  IF /\ Len(t) >= 2
     /\ t[1].ch = "{"
     /\ t[Len(t)] = Brace
     /\ \A i \in 2..(Len(t) - 1) : t[i] \in {Accented, Replacement}
  THEN [t |-> "object", id |-> t[1].id, kind |-> t[1].kind,
        text |-> SubSeq(t, 2, Len(t) - 1)]
  ELSE SyntaxError

\* the Error of the timeout callback
RequestTimeout == [t |-> "Error", message |-> "Request timeout"]

\* the delay sendRequest passes to setTimeout
REQUEST_TIMEOUT_MS == 30000

\* resolve(value) or reject(value) on the promise of a request: only the
\* first settles it
Settle(request, state, value) ==
  [request EXCEPT !.settles = @ + 1,
                  !.state = IF request.state = "pending" THEN state ELSE @,
                  !.value = IF request.state = "pending" THEN value ELSE @]

\* the handler sendRequest registers: clearTimeout(timeoutId); resolve(response)
Handler(request, response) ==
  Settle([request EXCEPT !.timer = IF @ = "armed" THEN "cleared" ELSE @],
         "resolved", response)

\* a Map without one key
MapDelete(map, key) == [k \in DOMAIN map \ {key} |-> map[k]]

\* a handleResponse that completes the oldest pending request, whatever
\* the id of the response
HandleResponseInOrder(st, response) ==
  IF response.id # 0 /\ DOMAIN st.handlers # {}
  THEN LET id == CHOOSE k \in DOMAIN st.handlers :
                   \A j \in DOMAIN st.handlers : k <= j
           c == st.handlers[id]
       IN [handlers |-> MapDelete(st.handlers, id),
           requests |-> [st.requests EXCEPT ![c] = Handler(@, response)]]
  ELSE st

\* a handleResponse that empties the table when no handler has the id
HandleResponseEvicts(st, response) ==
  IF response.id # 0 /\ response.id \in DOMAIN st.handlers
  THEN LET c == st.handlers[response.id] IN
       [handlers |-> MapDelete(st.handlers, response.id),
        requests |-> [st.requests EXCEPT ![c] = Handler(@, response)]]
  ELSE [handlers |-> [id \in {} |-> 0], requests |-> st.requests]

\* handleResponse(response), on the handler table and the requests
HandleResponse(st, response) ==
  IF response.id # 0 /\ response.id \in DOMAIN st.handlers
  THEN LET c == st.handlers[response.id] IN
       [handlers |-> MapDelete(st.handlers, response.id),
        requests |-> [st.requests EXCEPT ![c] = Handler(@, response)]]
  ELSE st

RECURSIVE ProcessLines(_, _)
\* the for loop of handleData
ProcessLines(lines, st) ==
  IF lines = <<>> THEN st
  ELSE LET line == lines[1]
           response == JSONParseLine(line)
       IN ProcessLines(Tail(lines),
            IF NoSpace(line) # <<>> /\ response # SyntaxError
            THEN HandleResponse(st, response)
            ELSE st)

RECURSIVE Responses(_)
\* the responses the for loop of handleData passes to handleResponse
Responses(lines) ==
  IF lines = <<>> THEN <<>>
  ELSE (IF NoSpace(lines[1]) # <<>> /\ JSONParseLine(lines[1]) # SyntaxError
        THEN <<JSONParseLine(lines[1])>> ELSE <<>>)
       \o Responses(Tail(lines))

\* initialize() after its await, for the requests a chunk resolved
InitializeDone(before, after) ==
  \E c \in 1..Len(before) :
    /\ before[c].method = "initialize"
    /\ before[c].state = "pending"
    /\ after[c].state = "resolved"
    /\ after[c].value.kind # "error"

\* a handleData whose loop ends at the first line that does not parse
HandleDataStopsAtError(data) ==
  LET lines == Split(buffer \o data)
      complete == SubSeq(lines, 1, Len(lines) - 1)
      bad == {i \in 1..Len(complete) :
                NoSpace(complete[i]) # <<>> /\ JSONParseLine(complete[i]) = SyntaxError}
      last == IF bad = {} THEN Len(complete)
              ELSE (CHOOSE i \in bad : \A j \in bad : i <= j) - 1
      st == ProcessLines(SubSeq(complete, 1, last),
                         [handlers |-> responseHandlers, requests |-> requests])
  IN /\ buffer' = lines[Len(lines)]
     /\ responseHandlers' = st.handlers
     /\ requests' = st.requests
     /\ initialized' = (initialized \/ InitializeDone(requests, st.requests))

\* a handleData that keeps the whole text in this.buffer
HandleDataKeepsAll(data) ==
  LET lines == Split(buffer \o data)
      st == ProcessLines(SubSeq(lines, 1, Len(lines) - 1),
                         [handlers |-> responseHandlers, requests |-> requests])
  IN /\ buffer' = buffer \o data
     /\ responseHandlers' = st.handlers
     /\ requests' = st.requests
     /\ initialized' = (initialized \/ InitializeDone(requests, st.requests))

\* handleData(data), and the continuations of the promises it resolved
HandleData(data) ==
  LET lines == Split(buffer \o data)
      st == ProcessLines(SubSeq(lines, 1, Len(lines) - 1),
                         [handlers |-> responseHandlers, requests |-> requests])
  IN /\ buffer' = lines[Len(lines)]
     /\ responseHandlers' = st.handlers
     /\ requests' = st.requests
     /\ initialized' = (initialized \/ InitializeDone(requests, st.requests))

\* cleanup()
Cleanup ==
  /\ responseHandlers' = [id \in {} |-> 0]
  /\ initialized' = FALSE
  /\ buffer' = <<>>
  /\ messageId' = 0

\* for the record: the requests whose table entry a cleanup() removes,
\* marked with what called it
MarkDropped(by) ==
  [c \in DOMAIN requests |->
     IF \E id \in DOMAIN responseHandlers : responseHandlers[id] = c
     THEN [requests[c] EXCEPT !.dropped = by]
     ELSE requests[c]]

\* the QueryOptions a caller can pass to queryDataset: none (the default
\* {}), or a timeout of five seconds
NoOptions == [t |-> "object"]

QueryOptions == {NoOptions, [t |-> "object", timeout |-> Num(5000)]}

\* sendRequest(method, params), when this.server is set; for the record,
\* the QueryOptions of the queryDataset call that made the request
SendRequestFor(method, options) ==
  LET id == messageId + 1
      c == Len(requests) + 1
  IN /\ messageId' = id
     /\ requests' = Append(requests,
            [id |-> id, method |-> method, state |-> "pending",
             value |-> Undefined, timer |-> "armed",
             delay |-> REQUEST_TIMEOUT_MS, settles |-> 0, dropped |-> "",
             options |-> options])
     /\ responseHandlers' = [k \in DOMAIN responseHandlers \cup {id} |->
                               IF k = id THEN c ELSE responseHandlers[k]]

\* sendRequest(method, params) of a call that has no QueryOptions
SendRequest(method) == SendRequestFor(method, NoOptions)

(***************************************************************************)
(* Actions of the client.                                                  *)
(***************************************************************************)
\* connect() up to its one-second wait
Connect ==
  /\ server = 0
  /\ spawned < MaxProcs
  /\ server' = spawned + 1
  /\ spawned' = spawned + 1
  /\ running' = running \cup {spawned + 1}
  /\ connecting' = connecting + 1
  /\ UNCHANGED <<messageId, responseHandlers, buffer, initialized, requests>>
  /\ UNCHANGED <<svcVars, wireVars, hdlVars>>

\* connect() after its wait: initialize() sends its request, or sendRequest
\* throws 'Client not connected'
ConnectInitialize ==
  /\ connecting > 0
  /\ connecting' = connecting - 1
  /\ IF server = 0
     THEN UNCHANGED <<messageId, responseHandlers, requests>>
     ELSE /\ Len(requests) < MaxSends
          /\ SendRequest("initialize")
  /\ UNCHANGED <<server, buffer, initialized, spawned, running>>
  /\ UNCHANGED <<svcVars, wireVars, hdlVars>>

\* listTools() up to its await
ListTools ==
  /\ initialized
  /\ server # 0
  /\ Len(requests) < MaxSends
  /\ SendRequest("tools/list")
  /\ UNCHANGED <<server, buffer, initialized, connecting, spawned, running>>
  /\ UNCHANGED <<svcVars, wireVars, hdlVars>>

\* queryDataset(datasetId, options) up to its first await:
\* callTool('query_dataset', {datasetId, format: options.format})
QueryDatasetWith(options) ==
  /\ initialized
  /\ server # 0
  /\ Len(requests) < MaxSends
  /\ SendRequestFor("tools/call", options)
  /\ UNCHANGED <<server, buffer, initialized, connecting, spawned, running>>
  /\ UNCHANGED <<svcVars, wireVars, hdlVars>>

\* queryDataset(datasetId)
QueryDataset == QueryDatasetWith(NoOptions)

\* a 'data' event of a server process's stdout
DataArrives(data) ==
  /\ spawned > 0
  /\ HandleData(data)
  /\ UNCHANGED <<server, messageId, connecting, spawned, running>>
  /\ UNCHANGED <<svcVars, wireVars, hdlVars>>

\* the timeout callback of request c; the timers all have the same delay,
\* so they expire in the order they were armed
TimerFires(c) ==
  /\ requests[c].timer = "armed"
  /\ \A d \in 1..(c - 1) : requests[d].timer # "armed"
  /\ IF requests[c].id \in DOMAIN responseHandlers
     THEN /\ responseHandlers' = MapDelete(responseHandlers, requests[c].id)
          /\ requests' = [requests EXCEPT
               ![c] = Settle([@ EXCEPT !.timer = "fired"], "rejected", RequestTimeout)]
     ELSE /\ requests' = [requests EXCEPT ![c].timer = "fired"]
          /\ UNCHANGED responseHandlers
  /\ UNCHANGED <<server, messageId, buffer, initialized, connecting, spawned, running>>
  /\ UNCHANGED <<svcVars, wireVars, hdlVars>>

\* close()
Close ==
  /\ Cleanup
  /\ server' = 0
  /\ requests' = MarkDropped("close")
  /\ UNCHANGED <<connecting, spawned, running>>
  /\ UNCHANGED <<svcVars, wireVars, hdlVars>>

\* the 'exit' event of process p, killed by close() or gone by itself
ServerExit(p) ==
  /\ p \in running
  /\ running' = running \ {p}
  /\ Cleanup
  /\ requests' = MarkDropped("exit")
  /\ UNCHANGED <<server, connecting, spawned>>
  /\ UNCHANGED <<svcVars, wireVars, hdlVars>>

\* the Errors the public methods throw before they send anything
NotInitialized == [t |-> "Error", message |-> "Client not initialized"]

AlreadyConnected == [t |-> "Error", message |-> "Client already connected"]

\* the promise of an async method that threw at its first statement: it is
\* rejected, no id was allocated and no timer armed
Refused(method, error) ==
  /\ Len(requests) < MaxSends
  /\ requests' = Append(requests,
         [id |-> 0, method |-> method, state |-> "rejected", value |-> error,
          timer |-> "none", delay |-> 0, settles |-> 1, dropped |-> "",
          options |-> NoOptions])
  /\ UNCHANGED <<server, messageId, responseHandlers, buffer, initialized,
                 connecting, spawned, running>>
  /\ UNCHANGED <<svcVars, wireVars, hdlVars>>

\* connect() on a client whose this.server is set
ConnectRefused == server # 0 /\ Refused("connect", AlreadyConnected)

\* listTools() on a client whose this.initialized is false
ListToolsRefused == ~initialized /\ Refused("tools/list", NotInitialized)

\* queryDataset(datasetId) on a client whose this.initialized is false
QueryDatasetRefused == ~initialized /\ Refused("tools/call", NotInitialized)

\* isConnected()
IsConnected == server # 0 /\ initialized

(***************************************************************************)
(* queryDataset with its second step, and queryMultipleDatasets.  The kind *)
(* of a response to a tools/call request tells what its result holds.      *)
(***************************************************************************)
\* queryDataset calls in a run
MaxQueries == 2

\* the datasetId given to a queryDataset call of its own
DatasetIds == {"A"}

\* the datasetIds array given to queryMultipleDatasets
DatasetBatches == {<<"A", "B">>}

\* what the server answers a tools/call request with: an error, the spec
\* of execution a or b, or data
ToolKinds == {"error", "spec:a", "spec:b", "data"}

\* response.content[0].text of a response of a kind
ContentText(kind) ==
  CASE kind = "spec:a" ->
         JSONStringify([t |-> "object", executionId |-> Str("a"),
                        status |-> Str("ready")])
    [] kind = "spec:b" ->
         JSONStringify([t |-> "object", executionId |-> Str("b"),
                        status |-> Str("ready")])
    [] kind = "data" ->
         JSONStringify([t |-> "object", observations |-> Str("x")])
    [] OTHER -> Undefined

\* the Errors of callTool and queryDataset
ToolCallFailed == [t |-> "Error", message |-> "Tool call failed"]

NoExecutionId ==
  [t |-> "Error", message |-> "No execution ID received from server"]

\* callTool(toolName, args) after its await, and JSON.parse of the text of
\* its result: the value parsed, or the Error thrown
CallToolParsed(request) ==
  IF request.state = "rejected"
  THEN [ok |-> FALSE, value |-> request.value]
  ELSE IF request.value.kind = "error"
       THEN [ok |-> FALSE, value |-> ToolCallFailed]
       ELSE LET parsed == JSONParse(ContentText(request.value.kind)) IN
            [ok |-> parsed # SyntaxError, value |-> parsed]

\* the tools/call request of a queryDataset call: sendRequest with, for the
\* record, the tool, its argument, the call of queryMultipleDatasets and
\* the position in its array (0 for a queryDataset call of its own), and
\* for execute_direct the request whose response gave the executionId
SendCall(st, tool, arg, batch, position, first) ==
  LET id == st.messageId + 1
      c == Len(st.requests) + 1
  IN [messageId |-> id,
      requests |-> Append(st.requests,
         [id |-> id, method |-> "tools/call", state |-> "pending",
          value |-> Undefined, timer |-> "armed",
          delay |-> REQUEST_TIMEOUT_MS, settles |-> 0, dropped |-> "",
          options |-> NoOptions, tool |-> tool, arg |-> arg,
          batch |-> batch, position |-> position, first |-> first]),
      handlers |-> [k \in DOMAIN st.handlers \cup {id} |->
                      IF k = id THEN c ELSE st.handlers[k]]]

\* whether request c is the query_dataset request of a queryDataset call
IsQuery(reqs, c) ==
  "tool" \in DOMAIN reqs[c] /\ reqs[c].tool = "query_dataset"

\* a queryDataset that asks for the execution of the first spec the client
\* was given, whichever call it was given to
QueryDatasetResumeShared(st, c) ==
  LET parsed == CallToolParsed(st.requests[c])
      given == {d \in 1..Len(st.requests) :
                  /\ IsQuery(st.requests, d)
                  /\ st.requests[d].state = "resolved"
                  /\ CallToolParsed(st.requests[d]).ok
                  /\ ~Falsy(Get(CallToolParsed(st.requests[d]).value, "executionId"))}
      d == CHOOSE x \in given : \A y \in given : x <= y
  IN IF IsQuery(st.requests, c) /\ parsed.ok
          /\ ~Falsy(Get(parsed.value, "executionId"))
     THEN SendCall(st, "execute_direct",
                   CallToolParsed(st.requests[d]).value.executionId,
                   st.requests[c].batch, st.requests[c].position, c)
     ELSE st

\* queryDataset after its first await, once request c is resolved:
\* JSON.parse of the text, and executeDirectly(result.executionId) when the
\* result has an executionId
QueryDatasetResume(st, c) ==
  LET parsed == CallToolParsed(st.requests[c]) IN
  IF IsQuery(st.requests, c) /\ parsed.ok
       /\ ~Falsy(Get(parsed.value, "executionId"))
  THEN SendCall(st, "execute_direct", parsed.value.executionId,
                st.requests[c].batch, st.requests[c].position, c)
  ELSE st

RECURSIVE ResolvedInOrder(_, _)
\* the requests the for loop of handleData resolves, in the order of the
\* lines: the order their continuations run in
ResolvedInOrder(lines, handlers) ==
  IF lines = <<>> THEN <<>>
  ELSE LET response == JSONParseLine(lines[1])
           hit == IF NoSpace(lines[1]) # <<>> /\ response # SyntaxError
                  THEN response.id # 0 /\ response.id \in DOMAIN handlers
                  ELSE FALSE
       IN IF hit
          THEN <<handlers[response.id]>>
                 \o ResolvedInOrder(Tail(lines), MapDelete(handlers, response.id))
          ELSE ResolvedInOrder(Tail(lines), handlers)

RECURSIVE Resume(_, _)
\* the continuations of the promises a chunk resolved
Resume(st, resolved) ==
  IF resolved = <<>> THEN st
  ELSE Resume(QueryDatasetResume(st, resolved[1]), Tail(resolved))

\* the execute_direct request of the queryDataset call whose query_dataset
\* request is c, or 0
SecondOf(reqs, c) ==
  LET ds == {d \in 1..Len(reqs) :
               /\ "tool" \in DOMAIN reqs[d]
               /\ reqs[d].tool = "execute_direct"
               /\ reqs[d].first = c}
  IN IF ds = {} THEN 0 ELSE CHOOSE d \in ds : TRUE

\* the promise of the queryDataset call whose query_dataset request is c:
\* pending, rejected with an Error, or resolved with {...result, data}
QueryPromise(reqs, c) ==
  LET spec == CallToolParsed(reqs[c])
      d == SecondOf(reqs, c)
  IN IF reqs[c].state = "pending"
     THEN [state |-> "pending", value |-> Undefined]
     ELSE IF ~spec.ok
     THEN [state |-> "rejected", value |-> spec.value]
     ELSE IF d = 0
     THEN [state |-> "rejected", value |-> NoExecutionId]
     ELSE IF reqs[d].state = "pending"
     THEN [state |-> "pending", value |-> Undefined]
     ELSE LET data == CallToolParsed(reqs[d]) IN
          IF ~data.ok
          THEN [state |-> "rejected", value |-> data.value]
          ELSE [state |-> "resolved",
                value |-> [f \in DOMAIN spec.value \cup {"data"} |->
                             IF f = "data" THEN data.value ELSE spec.value[f]]]

\* the calls of queryMultipleDatasets made so far
Batches(reqs) ==
  {reqs[c].batch : c \in {x \in 1..Len(reqs) : IsQuery(reqs, x)}} \ {0}

\* the query_dataset request of position i of a queryMultipleDatasets call
QueryAt(reqs, batch, i) ==
  CHOOSE c \in 1..Len(reqs) :
    IsQuery(reqs, c) /\ reqs[c].batch = batch /\ reqs[c].position = i

\* Promise.all(promises) of a queryMultipleDatasets call: resolved with the
\* values in the order of the array once every promise is resolved
PromiseAll(reqs, batch) ==
  LET n == Cardinality({c \in 1..Len(reqs) :
                          IsQuery(reqs, c) /\ reqs[c].batch = batch})
      promises == [i \in 1..n |-> QueryPromise(reqs, QueryAt(reqs, batch, i))]
  IN IF \E i \in 1..n : promises[i].state = "rejected"
     THEN [state |-> "rejected"]
     ELSE IF \E i \in 1..n : promises[i].state = "pending"
     THEN [state |-> "pending"]
     ELSE [state |-> "resolved", value |-> [i \in 1..n |-> promises[i].value]]

\* the number of queryDataset calls made so far
QueryCount == Cardinality({c \in 1..Len(requests) : IsQuery(requests, c)})

RECURSIVE SendQueries(_, _, _, _)
\* datasetIds.map(id => this.queryDataset(id, options)): each call runs up
\* to its first await
SendQueries(st, datasetIds, batch, i) ==
  IF i > Len(datasetIds) THEN st
  ELSE SendQueries(SendCall(st, "query_dataset", datasetIds[i], batch, i, 0),
                   datasetIds, batch, i + 1)

\* queryDataset(datasetId) up to its first await, with the record of what
\* it asked for
QueryDatasetFor(datasetId) ==
  /\ initialized
  /\ server # 0
  /\ QueryCount < MaxQueries
  /\ LET st == SendCall([messageId |-> messageId, requests |-> requests,
                         handlers |-> responseHandlers],
                        "query_dataset", datasetId, 0, 0, 0)
     IN /\ messageId' = st.messageId
        /\ requests' = st.requests
        /\ responseHandlers' = st.handlers
  /\ UNCHANGED <<server, buffer, initialized, connecting, spawned, running>>
  /\ UNCHANGED <<svcVars, wireVars, hdlVars>>

\* queryMultipleDatasets(datasetIds) up to the await of its Promise.all
QueryMultipleDatasets(datasetIds) ==
  /\ initialized
  /\ server # 0
  /\ QueryCount + Len(datasetIds) <= MaxQueries
  /\ LET st == SendQueries([messageId |-> messageId, requests |-> requests,
                            handlers |-> responseHandlers],
                           datasetIds, Cardinality(Batches(requests)) + 1, 1)
     IN /\ messageId' = st.messageId
        /\ requests' = st.requests
        /\ responseHandlers' = st.handlers
  /\ UNCHANGED <<server, buffer, initialized, connecting, spawned, running>>
  /\ UNCHANGED <<svcVars, wireVars, hdlVars>>

\* a 'data' event of the server's stdout: handleData(data), and then the
\* continuations of the queryDataset calls whose request it resolved
ToolDataArrives(data) ==
  /\ spawned > 0
  /\ LET lines == Split(buffer \o data)
         complete == SubSeq(lines, 1, Len(lines) - 1)
         st == ProcessLines(complete,
                 [handlers |-> responseHandlers, requests |-> requests])
         fin == Resume([messageId |-> messageId, requests |-> st.requests,
                        handlers |-> st.handlers],
                       ResolvedInOrder(complete, responseHandlers))
     IN /\ buffer' = lines[Len(lines)]
        /\ messageId' = fin.messageId
        /\ requests' = fin.requests
        /\ responseHandlers' = fin.handlers
        /\ initialized' = (initialized \/ InitializeDone(requests, st.requests))
  /\ UNCHANGED <<server, connecting, spawned, running>>
  /\ UNCHANGED <<svcVars, wireVars, hdlVars>>

\* the lines a server process answers the requests awaiting a response
\* with, in any order
ToolLines ==
  {ResponseLine(id, kind) : id \in DOMAIN responseHandlers, kind \in ToolKinds}

\* lines a server process writes: a response or an error response to a
\* request, a message without an id, a line that is not JSON
ServerLines ==
  {ResponseLine(id, kind) : id \in 0..MaxSends, kind \in {"result", "error"}}
  \cup {<<Junk, NL>>}

\* what the server process writes to its stdout: the response to request 1,
\* the same with a character outside ASCII in a string, a line that is not
\* JSON, a blank line, a response cut short
WrittenLines ==
  {ResponseLine(1, "result"),
   <<Open(1, "result"), Lead, Cont, Brace, NL>>,
   <<Junk, NL>>,
   <<SP, NL>>,
   <<Open(1, "result"), NL>>}

\* responses the server process writes: to the first request, an error to the
\* second, a message without id, and one with an id no request was given
RoutedLines ==
  {ResponseLine(1, "result"), ResponseLine(2, "error"),
   ResponseLine(0, "result"), ResponseLine(MaxSends + 1, "result")}

\* the number of lines in a text
LineCount(text) == Cardinality({i \in 1..Len(text) : text[i] = NL})

\* the server process writes a line to its stdout
ServerWrites(line) ==
  /\ spawned > 0
  /\ LineCount(stream) < MaxLines
  /\ stream' = stream \o line
  /\ UNCHANGED <<pos, delivered, received>>
  /\ UNCHANGED <<svcVars, cliVars, hdlVars>>

\* a 'data' event of the stdout pipe with the next n bytes:
\* this.handleData(data.toString())
Chunk(n) ==
  /\ spawned > 0
  /\ pos + n <= Len(stream)
  /\ LET data == DataToString(SubSeq(stream, pos + 1, pos + n))
         lines == Split(buffer \o data)
     IN /\ HandleData(data)
        /\ delivered' = delivered \o Responses(SubSeq(lines, 1, Len(lines) - 1))
        /\ received' = received \o data
  /\ pos' = pos + n
  /\ UNCHANGED <<stream, server, messageId, connecting, spawned, running>>
  /\ UNCHANGED <<svcVars, hdlVars>>

InitClient ==
  /\ server = 0
  /\ messageId = 0
  /\ responseHandlers = [id \in {} |-> 0]
  /\ buffer = <<>>
  /\ initialized = FALSE
  /\ requests = <<>>
  /\ connecting = 0
  /\ spawned = 0
  /\ running = {}

InitWire ==
  /\ stream = <<>>
  /\ pos = 0
  /\ delivered = <<>>
  /\ received = <<>>

InitHandlers == fetching = {}

Init == InitService /\ InitClient /\ InitWire /\ InitHandlers

(***************************************************************************)
(* Specifications.                                                         *)
(***************************************************************************)
\* the service called directly
NextService ==
  \/ \E toolName \in ToolNames, parameters \in Parameters :
       Generate([toolName |-> toolName, parameters |-> parameters])
  \/ \E executionId \in ExecutionIds : ExecuteSpecStart(executionId)
  \/ \E executionId \in DOMAIN heap, response \in AxiosResponses :
       ExecuteSpecFinish(executionId, response)
  \/ \E maxAge \in 0..MaxTime : CleanupOldSpecs(maxAge)
  \/ Tick

SpecService == Init /\ [][NextService]_vars

\* the service with its two read methods, over times longer than DEFAULT_TTL
NextStore ==
  \/ \E toolName \in ToolNames, parameters \in Parameters :
       Generate([toolName |-> toolName, parameters |-> parameters])
  \/ \E executionId \in ExecutionIds : ExecuteSpecStart(executionId)
  \/ \E executionId \in DOMAIN heap, response \in AxiosResponses :
       ExecuteSpecFinish(executionId, response)
  \/ \E maxAge \in MaxAges : CleanupOldSpecs(maxAge)
  \/ \E executionId \in ExecutionIds : GetSpec(executionId)
  \/ GetActiveSpecs
  \/ Expire

SpecStore == Init /\ [][NextStore]_vars

\* the service called through the server's CallTool handler
NextTool ==
  \/ \E args \in DatasetArgs : CallTool("query_dataset", args)
  \/ \E args \in ExecuteArgs : CallTool("execute_direct", args)
  \/ CallTool("list_dataflows", [format |-> Str("csv")])
  \/ \E executionId \in DOMAIN heap, response \in AxiosResponses :
       ExecuteSpecFinish(executionId, response)
  \/ \E maxAge \in 0..MaxTime : CleanupOldSpecs(maxAge)
  \/ Tick

SpecTool == Init /\ [][NextTool]_vars

\* the service behind the two handlers of query_dataset: the one of
\* index.ts and the one of handlers/queryDataset.ts
NextHandlers ==
  \/ \E args \in DatasetArgs : CallTool("query_dataset", args)
  \/ \E args \in DatasetArgs : QueryDatasetWithServiceStart(args)
  \/ \E executionId \in fetching, response \in AxiosResponses :
       QueryDatasetWithServiceFinish(executionId, response)
  \/ \E args \in ExecuteArgs : CallTool("execute_direct", args)
  \/ \E executionId \in DOMAIN heap, response \in AxiosResponses :
       ExecuteSpecFinish(executionId, response)
  \/ Tick

SpecHandlers == Init /\ [][NextHandlers]_vars

\* the client and its server process, whole lines arriving
NextClient ==
  \/ Connect
  \/ ConnectInitialize
  \/ ListTools
  \/ QueryDataset
  \/ \E data \in ServerLines : DataArrives(data)
  \/ \E c \in 1..Len(requests) : TimerFires(c)
  \/ Close
  \/ \E p \in running : ServerExit(p)

SpecClient == Init /\ [][NextClient]_vars

\* the client with every call of its public methods, those that throw at
\* their first statement included
NextLifecycle ==
  \/ Connect
  \/ ConnectRefused
  \/ ConnectInitialize
  \/ ListTools
  \/ ListToolsRefused
  \/ QueryDataset
  \/ QueryDatasetRefused
  \/ \E data \in ServerLines : DataArrives(data)
  \/ \E c \in 1..Len(requests) : TimerFires(c)
  \/ Close
  \/ \E p \in running : ServerExit(p)

SpecLifecycle == Init /\ [][NextLifecycle]_vars

\* the client of one server process making queries: both steps of each
\* queryDataset, and the responses in any order
NextQuery ==
  \/ Connect
  \/ ConnectInitialize
  \/ \E datasetId \in DatasetIds : QueryDatasetFor(datasetId)
  \/ \E datasetIds \in DatasetBatches : QueryMultipleDatasets(datasetIds)
  \/ \E line \in ToolLines : ToolDataArrives(line)

SpecQuery == Init /\ [][NextQuery]_vars

\* the same, every armed timer expiring in the end: a timer of setTimeout
\* that nothing clears runs its callback
SpecClientLive ==
  SpecClient
    /\ \A c \in 1..MaxSends : WF_vars(c <= Len(requests) /\ TimerFires(c))

\* the client reading the bytes of its server's stdout, chunk by chunk
NextFraming ==
  \/ Connect
  \/ ConnectInitialize
  \/ \E line \in WrittenLines : ServerWrites(line)
  \/ \E n \in 1..(Len(stream) - pos) : Chunk(n)

SpecFraming == Init /\ [][NextFraming]_vars

\* the client of one server process: requests, their timers, and the
\* responses read from the pipe
NextRouting ==
  \/ Connect
  \/ ConnectInitialize
  \/ ListTools
  \/ \E line \in RoutedLines : ServerWrites(line)
  \/ \E n \in 1..(Len(stream) - pos) : Chunk(n)
  \/ \E c \in 1..Len(requests) : TimerFires(c)

SpecRouting == Init /\ [][NextRouting]_vars

\* the client of one server process, its callers passing QueryOptions
NextOptions ==
  \/ Connect
  \/ ConnectInitialize
  \/ ListTools
  \/ \E options \in QueryOptions : QueryDatasetWith(options)
  \/ \E data \in ServerLines : DataArrives(data)
  \/ \E c \in 1..Len(requests) : TimerFires(c)

SpecOptions == Init /\ [][NextOptions]_vars

(***************************************************************************)
(* Properties.                                                             *)
(***************************************************************************)
ResultFields == {"executionId", "status", "recordCount", "error", "executedAt"}

\* C1: whatever executeSpec returns (found or not, remote success or
\* failure, other calls in flight or not), the ExecutionResult has no field
\* outside executionId, status, recordCount, error, executedAt: no data
C1_ResultHasNoPayload ==
  ret.op = "executeSpec" =>
    /\ ret.ok
    /\ DOMAIN ret.value \subseteq ResultFields
    /\ "data" \notin DOMAIN ret.value

\* a remote call fetched a document of MaxObs observations and the call
\* returned, while another executeSpec call is in flight
C1_Witness ==
  /\ ret.op = "executeSpec"
  /\ ret.value.status = "success"
  /\ ret.value.recordCount = MaxObs
  /\ \E id \in DOMAIN inflight : inflight[id] > 0

\* C2: a successful execute_direct on a spec query_dataset returned answers
\* with a text that parses to an object having executionId, status,
\* recordCount and executedAt, and no data
C2_ExecuteDirectMetadata ==
  (ret.op = "executeSpec" /\ ToolAnswer.ok) =>
    LET result == JSONParse(ToolAnswer.value.content.text) IN
    /\ {"executionId", "status", "recordCount", "executedAt"} \subseteq DOMAIN result
    /\ "data" \notin DOMAIN result

\* C3: a request that resolved did so with a response carrying the id that
\* was allocated to it, and its promise was settled once
C3_ResolvedByOwnId ==
  \A c \in 1..Len(requests) :
    requests[c].state = "resolved" =>
      /\ requests[c].value.id = requests[c].id
      /\ requests[c].settles = 1

\* two requests were outstanding at once and the later one got its
\* response first
C3_Witness ==
  \E c, d \in 1..Len(requests) :
    /\ c < d
    /\ requests[c].state = "pending"
    /\ requests[c].id \in DOMAIN responseHandlers
    /\ responseHandlers[requests[c].id] = c
    /\ requests[c].id < requests[d].id
    /\ requests[d].state = "resolved"
    /\ requests[d].value.id = requests[d].id

\* request c has its entry in the pending-call table
Registered(c) ==
  /\ requests[c].id \in DOMAIN responseHandlers
  /\ responseHandlers[requests[c].id] = c

\* C4: a request that no close() or server exit dropped is either pending
\* with its entry in the table, or was completed exactly once, by a
\* response with its id or by the timeout
C4_CompletedExactlyOnce ==
  \A c \in 1..Len(requests) :
    requests[c].dropped = "" =>
      \/ /\ requests[c].state = "pending"
         /\ requests[c].settles = 0
         /\ Registered(c)
      \/ /\ requests[c].settles = 1
         /\ ~Registered(c)
         /\ \/ /\ requests[c].state = "resolved"
               /\ requests[c].value.id = requests[c].id
            \/ /\ requests[c].state = "rejected"
               /\ requests[c].value = RequestTimeout

\* C5: a request that no close() or server exit dropped, and whose timer
\* expired before a response resolved it, was rejected with the timeout
\* error and has no entry in the table
C5_TimeoutFailsTheCall ==
  \A c \in 1..Len(requests) :
    (/\ requests[c].dropped = ""
     /\ requests[c].timer = "fired"
     /\ requests[c].state # "resolved") =>
      /\ requests[c].state = "rejected"
      /\ requests[c].value = RequestTimeout
      /\ ~Registered(c)

\* C6: a request that was pending when close() ran has been failed
C6_CloseFailsPending ==
  \A c \in 1..Len(requests) :
    requests[c].dropped = "close" => requests[c].state = "rejected"

\* C7: the ids sendRequest allocates are strictly increasing in the order
\* of the calls
C7_IdsStrictlyIncrease ==
  \A c, d \in 1..Len(requests) :
    c < d => requests[c].id < requests[d].id

\* a request generateExecutionSpec accepts as valid
ValidRequest(request) ==
  /\ request.toolName = "query_dataset"
  /\ Get(request.parameters, "datasetId").t = "string"
  /\ ~Falsy(Get(request.parameters, "datasetId"))

\* C8: generateExecutionSpec on a valid request returns a spec with status
\* pending, whose id no spec created before has, and which the store
\* returns for that id
C8_GeneratePendingUnique ==
  [][\A toolName \in ToolNames, parameters \in Parameters :
       LET request == [toolName |-> toolName, parameters |-> parameters] IN
       (ValidRequest(request) /\ Generate(request)) =>
         /\ ret'.ok
         /\ ret'.value.status = "pending"
         /\ ret'.value.executionId \notin DOMAIN heap
         /\ ret'.value.executionId \in executions'
         /\ heap'[ret'.value.executionId] = ret'.value]_vars

\* a second spec was generated and returned, the first still stored
C8_Witness ==
  /\ ret.op = "generateExecutionSpec"
  /\ ret.ok
  /\ ValidRequest(ret.arg)
  /\ Cardinality(executions) = 2

StatusChanges == {<<"pending", "executing">>, <<"executing", "success">>,
                  <<"executing", "error">>, <<"success", "executing">>,
                  <<"error", "executing">>}

\* C9: a stored spec's status changes only along pending -> executing,
\* executing -> success, executing -> error, success -> executing and
\* error -> executing, and a spec enters the store pending
C9_StatusTransitions ==
  [][/\ \A id \in executions \cap executions' :
          heap[id].status # heap'[id].status =>
            <<heap[id].status, heap'[id].status>> \in StatusChanges
     /\ \A id \in executions' \ executions :
          heap'[id].status = "pending"]_vars

\* C10: executeSpec on an id the store does not hold returns the not-found
\* result, requests nothing, and leaves the store and its specs as they were
C10_NotFoundChangesNothing ==
  [][\A id \in ExecutionIds :
       (id \notin executions /\ ExecuteSpecStart(id)) =>
         /\ ret' = Returned("executeSpec", id,
                            [executionId |-> id, status |-> "error",
                             error |-> "Execution spec not found"])
         /\ UNCHANGED <<heap, executions, inflight, remoteCalls>>]_vars

\* executeSpec returned not-found for a spec a sweep removed, other specs
\* being stored
C10_Witness ==
  /\ ret.op = "executeSpec"
  /\ ret.arg \in DOMAIN heap
  /\ ret.arg \notin executions
  /\ ret.value.status = "error"
  /\ executions # {}

\* C11: when axios.get rejects, executeSpec returns (does not throw) a
\* result with status error and the error's message, and the spec's status
\* is error; executeSpec on a stored spec whose status is error requests
\* again; and when axios.get resolves, executeSpec returns status success
\* and the spec's status is success
C11_RemoteFailureIsReported ==
  [][\A id \in DOMAIN heap :
       /\ \A response \in AxiosResponses :
            ExecuteSpecFinish(id, response) =>
              /\ ret'.op = "executeSpec"
              /\ ret'.ok
              /\ IF response.ok
                 THEN /\ ret'.value.status = "success"
                      /\ heap'[id].status = "success"
                 ELSE /\ ret'.value.status = "error"
                      /\ "error" \in DOMAIN ret'.value
                      /\ ret'.value.error = response.message
                      /\ heap'[id].status = "error"
       /\ (id \in executions /\ heap[id].status = "error"
             /\ remoteCalls < MaxCalls) =>
            /\ ENABLED ExecuteSpecStart(id)
            /\ ExecuteSpecStart(id) =>
                 /\ remoteCalls' = remoteCalls + 1
                 /\ inflight' = [inflight EXCEPT ![id] = @ + 1]
                 /\ heap'[id].status = "executing"]_vars

\* a remote call failed and executeSpec returned the error result, the
\* stored spec having status error and another request being possible
C11_Witness ==
  /\ ret.op = "executeSpec"
  /\ ret.ok
  /\ ret.arg \in executions
  /\ ret.value.status = "error"
  /\ ret.value.error = "Request failed with status code 500"
  /\ heap[ret.arg].status = "error"
  /\ remoteCalls < MaxCalls

\* the number of observations of a response document
Countable(data) ==
  IF "observations" \in DOMAIN data
  THEN Cardinality(data.observations.keys) ELSE 0

\* C12: when axios.get resolves, executeSpec returns status success, the
\* time of completion as executedAt, and as recordCount the number of
\* observations of the document, 0 when it has no observations collection;
\* the spec's status is success
C12_SuccessCountsRecords ==
  [][\A id \in DOMAIN heap, response \in AxiosResponses :
       (response.ok /\ ExecuteSpecFinish(id, response)) =>
         /\ ret'.ok
         /\ ret'.value.status = "success"
         /\ ret'.value.executedAt = ToISOString(now)
         /\ ret'.value.recordCount = Countable(response.data)
         /\ heap'[id].status = "success"]_vars

\* a document of MaxObs observations was counted at a time after the
\* spec's creation
C12_Witness ==
  /\ ret.op = "executeSpec"
  /\ ret.value.status = "success"
  /\ ret.value.recordCount = MaxObs
  /\ heap[ret.arg].status = "success"
  /\ DateParse(ret.value.executedAt) > DateParse(heap[ret.arg].timestamp)

\* the age of a spec: now minus its creation timestamp
Age(id) == now - DateParse(heap[id].timestamp)

\* C13: cleanupOldSpecs(maxAge) deletes the stored specs whose age is
\* greater than maxAge and no other, one whose age equals maxAge included
\* in those it keeps, and changes no spec
C13_SweepIsAgeFilter ==
  [][\A maxAge \in 0..MaxTime :
       CleanupOldSpecs(maxAge) =>
         /\ \A id \in executions :
              id \in executions' <=> Age(id) <= maxAge
         /\ executions' \subseteq executions
         /\ \A id \in DOMAIN heap : heap'[id] = heap[id]
         /\ DOMAIN heap' = DOMAIN heap]_vars

\* a sweep deleted a spec older than maxAge and kept one whose age is maxAge
C13_Witness ==
  /\ ret.op = "cleanupOldSpecs"
  /\ \E id \in executions : Age(id) = ret.arg
  /\ \E id \in DOMAIN heap \ executions : Age(id) > ret.arg
  /\ Cardinality(DOMAIN heap) = MaxSpecs

\* cleanupOldSpecs(maxAge) called at time t would delete the spec id
SweepRemoves(id, maxAge, t) ==
  /\ id \in executions
  /\ t - DateParse(heap[id].timestamp) > maxAge

\* the times of the model
Times == {n * (DEFAULT_TTL + 1) : n \in 0..MaxTime}

\* a step of getExecutionSpec, getActiveSpecs or executeSpec: one of them
\* returned, or an executeSpec call went to its await
ReadOrExecute ==
  \/ ret'.op \in {"getExecutionSpec", "getActiveSpecs", "executeSpec"}
  \/ \E id \in DOMAIN heap : inflight'[id] # inflight[id]

\* C14: no step changes the timestamp of a spec, and a step of
\* getExecutionSpec, getActiveSpecs or executeSpec leaves unchanged, for
\* every spec, maxAge and later time, whether a sweep at that time deletes
\* the spec
C14_TimestampIsWriteOnce ==
  [][/\ \A id \in DOMAIN heap :
          /\ id \in DOMAIN heap'
          /\ heap'[id].timestamp = heap[id].timestamp
     /\ ReadOrExecute =>
          \A id \in DOMAIN heap, maxAge \in MaxAges,
             t \in {time \in Times : time >= now} :
            SweepRemoves(id, maxAge, t) <=>
              /\ id \in executions'
              /\ t - DateParse(heap'[id].timestamp) > maxAge]_vars

\* a spec that was executed is read at a time later than its creation
C14_Witness ==
  /\ ret.op = "getExecutionSpec"
  /\ ret.value # Undefined
  /\ ret.value.status = "success"
  /\ DateParse(ret.value.timestamp) < now

\* C15: only cleanupOldSpecs takes a spec out of the store; a stored spec
\* older than its ttl is returned by getExecutionSpec and is requested by
\* executeSpec like any other
C15_OnlySweepRemoves ==
  [][/\ executions \subseteq executions'
          \/ \E maxAge \in MaxAges : CleanupOldSpecs(maxAge)
     /\ \A id \in executions :
          Age(id) > heap[id].ttl =>
            /\ ENABLED GetSpec(id)
            /\ GetSpec(id) => ret'.value = heap[id]
            /\ remoteCalls < MaxCalls => ENABLED ExecuteSpecStart(id)
            /\ ExecuteSpecStart(id) =>
                 /\ ret'.op = "axios.get"
                 /\ remoteCalls' = remoteCalls + 1
                 /\ id \in executions']_vars

\* a spec older than its ttl, never swept, was returned by getExecutionSpec
\* while a request for it is in flight
C15_Witness ==
  /\ ret.op = "getExecutionSpec"
  /\ ret.value # Undefined
  /\ now - DateParse(ret.value.timestamp) > ret.value.ttl
  /\ inflight[ret.arg] > 0
  /\ ret.value.status = "executing"

\* C16: in every step, every spec keeps its executionId, toolName,
\* parameters, apiCall (method, url, params), timestamp and ttl: a step
\* changes at most its status, and whether the store holds it
C16_DescriptorIsImmutable ==
  [][\A id \in DOMAIN heap :
       /\ id \in DOMAIN heap'
       /\ heap'[id] = [heap[id] EXCEPT !.status = heap'[id].status]
       /\ heap[id].executionId = id]_vars

\* a stored spec that was executed to success and read has the descriptor
\* buildApiCall makes for its parameters
C16_Witness ==
  /\ ret.op = "getActiveSpecs"
  /\ \E id \in executions :
       /\ heap[id].status = "success"
       /\ heap[id].executionId = id
       /\ heap[id].apiCall =
            BuildApiCall(heap[id].toolName, heap[id].parameters).apiCall
       /\ DateParse(heap[id].timestamp) < now

\* the specs a step of executeSpec was called on: one whose count of
\* calls in flight changes, or the one a call returned for
Executed ==
  {id \in DOMAIN heap : inflight'[id] # inflight[id]}
  \cup (IF ret'.op = "executeSpec" THEN {ret'.arg} ELSE {})

\* C17: a step of executeSpec leaves the set of stored ids as it was and
\* changes no spec but the status of the one it was called on; and a call
\* on a stored spec, whatever its status, goes to the remote request
C17_ExecuteKeepsTheStore ==
  [][/\ Executed # {} =>
          /\ executions' = executions
          /\ DOMAIN heap' = DOMAIN heap
          /\ \A other \in DOMAIN heap \ Executed : heap'[other] = heap[other]
          /\ \A id \in Executed \cap DOMAIN heap :
               heap'[id] = [heap[id] EXCEPT !.status = heap'[id].status]
     /\ \A id \in executions :
          ExecuteSpecStart(id) =>
            /\ remoteCalls' = remoteCalls + 1
            /\ inflight'[id] = inflight[id] + 1]_vars

\* the one spec generated was executed MaxCalls times, the last time with
\* success, and is still stored
C17_Witness ==
  /\ ret.op = "executeSpec"
  /\ ret.value.status = "success"
  /\ issued = {ret.arg}
  /\ ret.arg \in executions
  /\ remoteCalls = MaxCalls
  /\ inflight[ret.arg] = 0

\* a line that is well-formed JSON: an object, opened and closed, with
\* nothing but characters of a string inside
WellFormed(line) ==
  LET t == NoSpace(line) IN
  /\ Len(t) >= 2
  /\ t[1].ch = "{"
  /\ t[Len(t)].ch = "}"
  /\ \A i \in 2..(Len(t) - 1) : t[i].ch \in {"e-acute", "U+FFFD"}

\* the lines a chunk of n bytes completes
CompletedLines(n) ==
  LET lines == Split(buffer \o DataToString(SubSeq(stream, pos + 1, pos + n)))
  IN SubSeq(lines, 1, Len(lines) - 1)

\* C18: a chunk that completes only lines that are not well-formed JSON
\* (one of them at least) resolves and rejects no request, removes no
\* handler, and passes nothing to handleResponse
C18_MalformedLineIsIgnored ==
  [][\A n \in 1..(Len(stream) - pos) :
       LET lines == CompletedLines(n) IN
       (/\ spawned > 0
        /\ lines # <<>>
        /\ \A i \in 1..Len(lines) : ~WellFormed(lines[i])
        /\ Chunk(n)) =>
              /\ requests' = requests
              /\ responseHandlers' = responseHandlers
              /\ initialized' = initialized
              /\ delivered' = delivered]_vars

\* the line of a response cut short, which carries the id of the pending
\* initialize request, went through handleData: the request is pending
\* and has its handler
C18_Witness ==
  /\ Len(stream) >= 2
  /\ SubSeq(stream, 1, 2) = <<Open(1, "result"), NL>>
  /\ pos >= 2
  /\ Len(requests) = 1
  /\ requests[1].state = "pending"
  /\ Registered(1)
  /\ delivered = <<>>

\* C19: however the bytes read so far were cut into chunks, handleData has
\* passed to handleResponse the responses it passes when the same bytes
\* come as one chunk
C19_FramingIgnoresChunking ==
  LET lines == Split(DataToString(SubSeq(stream, 1, pos)))
  IN delivered = Responses(SubSeq(lines, 1, Len(lines) - 1))

\* C20: generateExecutionSpec throws when the toolName is not
\* query_dataset, and when the datasetId parameter is missing or is not a
\* non-empty string
C20_GenerateValidates ==
  (ret.op = "generateExecutionSpec" /\ ~ValidRequest(ret.arg)) => ~ret.ok

\* what a step that serves a query_dataset request may do to the service:
\* request nothing, and add at most one spec, a new one, to the store
GeneratesOnly ==
  /\ remoteCalls' = remoteCalls
  /\ \A id \in DOMAIN heap :
       /\ id \in DOMAIN heap'
       /\ heap'[id] = heap[id]
       /\ inflight'[id] = inflight[id]
  /\ executions \subseteq executions'
  /\ executions' \ executions = DOMAIN heap' \ DOMAIN heap
  /\ Cardinality(executions' \ executions) <= 1
  /\ \A id \in executions' \ executions : inflight'[id] = 0

\* C21: a step that serves a query_dataset request, by the handler of
\* index.ts or by handleQueryDatasetWithService, issues no request to the
\* remote API, and changes the service only by adding one new spec to the
\* store
C21_GenerateIsLocal ==
  [][\A args \in DatasetArgs :
       (CallTool("query_dataset", args) \/ QueryDatasetWithServiceStart(args))
         => GeneratesOnly]_vars

\* request c failed by timeout
TimedOut(c) ==
  /\ requests[c].state = "rejected"
  /\ requests[c].value = RequestTimeout

\* C22: once a request has failed by timeout, a request sent afterwards
\* gets an id other than the timed-out request's, and a later request is
\* resolved only by a response that carries its own id, never by one that
\* carries the id of the timed-out request
C22_UsableAfterTimeout ==
  [][\A c \in 1..Len(requests) :
       TimedOut(c) =>
         /\ Len(requests') > Len(requests) =>
              requests'[Len(requests')].id # requests[c].id
         /\ \A d \in (c + 1)..Len(requests) :
              (requests[d].state = "pending" /\ requests'[d].state = "resolved")
                => /\ requests'[d].value.id = requests[d].id
                   /\ requests'[d].value.id # requests[c].id]_vars

\* C23: a chunk whose responses all carry no id or an id that has no
\* entry in the pending-call table (one at least being passed to
\* handleResponse) leaves the table, every request's promise and timer,
\* and the initialized flag as they were
C23_UnmatchedIsDropped ==
  [][\A n \in 1..(Len(stream) - pos) :
       LET passed == Responses(CompletedLines(n)) IN
       (/\ spawned > 0
        /\ passed # <<>>
        /\ \A i \in 1..Len(passed) :
             passed[i].id = 0 \/ passed[i].id \notin DOMAIN responseHandlers
        /\ Chunk(n)) =>
              /\ requests' = requests
              /\ responseHandlers' = responseHandlers
              /\ initialized' = initialized
              /\ messageId' = messageId]_vars

\* the initialize request was resolved by its response; the second request
\* failed by timeout, and a response with its id went through
\* handleResponse without settling it again
C23_Witness ==
  /\ Len(requests) = 2
  /\ requests[1].state = "resolved"
  /\ TimedOut(2)
  /\ requests[2].settles = 1
  /\ Len(delivered) = 2
  /\ delivered[1].id = 1
  /\ delivered[2].id = 2
  /\ pos = Len(stream)

\* the url executeSpec requests for a spec made by generateExecutionSpec
DescriptorUrl(spec) ==
  BuildApiCall(spec.toolName, spec.parameters).apiCall.url
    \o <<"?", [t |-> "query",
               of |-> BuildApiCall(spec.toolName, spec.parameters).apiCall.params]>>

\* C24: a step of executeSpec on a stored spec issues one request, to the
\* url and query of that spec's descriptor, and on an id the store does not
\* hold it issues none; the step in which executeSpec returns, with success
\* or with the error of a failed request, issues none; and nothing else
\* issues a request
C24_OneRequestPerCall ==
  [][/\ \A id \in ExecutionIds :
          ExecuteSpecStart(id) =>
            IF id \in executions
            THEN /\ remoteCalls' = remoteCalls + 1
                 /\ ret' = Requested(DescriptorUrl(heap[id]))
                 /\ inflight'[id] = inflight[id] + 1
            ELSE /\ remoteCalls' = remoteCalls
                 /\ ret'.op = "executeSpec"
                 /\ inflight' = inflight
     /\ \A id \in DOMAIN heap, response \in AxiosResponses :
          ExecuteSpecFinish(id, response) =>
            /\ remoteCalls' = remoteCalls
            /\ ret'.op = "executeSpec"
            /\ inflight'[id] = inflight[id] - 1
     /\ remoteCalls' # remoteCalls =>
          \E id \in executions : ExecuteSpecStart(id)]_vars

\* executeSpec returned the error of a failed request: one request was
\* issued and none is in flight
C24_Witness ==
  /\ ret.op = "executeSpec"
  /\ ret.arg \in executions
  /\ ret.value.status = "error"
  /\ remoteCalls = 1
  /\ \A id \in DOMAIN inflight : inflight[id] = 0

\* the result executeSpec owes to the outcome of its own request
OwnResult(id, response) ==
  IF response.ok
  THEN [executionId |-> id, status |-> "success",
        recordCount |-> Countable(response.data),
        executedAt |-> ToISOString(now)]
  ELSE [executionId |-> id, status |-> "error", error |-> response.message]

\* C25: whatever calls on other ids are in flight, executeSpec on id A
\* returns the result of A's own request and leaves A with the status of
\* that result (no other call on A being in flight); a step of executeSpec
\* on A changes no other spec and no other call; and the status of A
\* changes only in steps of executeSpec on A
C25_DifferentIdsDoNotInterfere ==
  [][\A id \in DOMAIN heap :
       /\ \A response \in AxiosResponses :
            ExecuteSpecFinish(id, response) =>
              /\ ret' = Returned("executeSpec", id, OwnResult(id, response))
              /\ inflight[id] = 1 => heap'[id].status = OwnResult(id, response).status
              /\ \A other \in DOMAIN heap \ {id} :
                   /\ heap'[other] = heap[other]
                   /\ inflight'[other] = inflight[other]
       /\ ExecuteSpecStart(id) =>
            \A other \in DOMAIN heap \ {id} :
              /\ heap'[other] = heap[other]
              /\ inflight'[other] = inflight[other]
       /\ heap'[id].status # heap[id].status =>
            \/ ExecuteSpecStart(id)
            \/ \E response \in AxiosResponses : ExecuteSpecFinish(id, response)]_vars

\* two calls on different ids overlapped: one returned success and its spec
\* has status success, while the other is still in flight, its spec
\* executing
C25_Witness ==
  /\ ret.op = "executeSpec"
  /\ ret.value.status = "success"
  /\ ret.arg \in executions
  /\ heap[ret.arg].status = "success"
  /\ inflight[ret.arg] = 0
  /\ \E other \in executions \ {ret.arg} :
       /\ inflight[other] = 1
       /\ heap[other].status = "executing"

\* C26: when executeSpec returns a result of status error to
\* handleExecuteDirect (spec not found, or the remote request failed), the
\* CallTool handler throws an Error that carries the result's error text,
\* and returns no content; and the request after such an answer is served
\* like any other: a valid query_dataset stores and returns a new spec
C26_FailureIsAnErrorResponse ==
  [][/\ (ret'.op = "executeSpec" /\ ret'.value.status = "error") =>
          /\ ~ExecuteDirectReply(ret'.value).ok
          /\ ExecuteDirectReply(ret'.value).value =
               ToolError("execute_direct", ret'.value.error)
     /\ (ret.op = "executeSpec" /\ ret.value.status = "error") =>
          \A args \in DatasetArgs :
            (/\ ~Falsy(Get(args, "datasetId"))
             /\ Get(args, "datasetId").t = "string"
             /\ CallTool("query_dataset", args)) =>
                  /\ ret'.op = "generateExecutionSpec"
                  /\ ret'.ok
                  /\ ret'.value.executionId \in executions' \ executions]_vars

\* one execute_direct failed upstream, leaving its spec with status error;
\* a later one, for an id the store does not hold, was answered with the
\* not-found error
C26_Witness ==
  /\ ret.op = "executeSpec"
  /\ ret.arg \notin executions
  /\ ret.value.status = "error"
  /\ ~ToolAnswer.ok
  /\ \E id \in executions : heap[id].status = "error"

\* C27: the timer of a request is armed with 30 seconds, or with the
\* timeout of the caller's QueryOptions when the caller gave one
C27_TimeoutIsOverridable ==
  \A c \in 1..Len(requests) :
    requests[c].delay =
      IF Get(requests[c].options, "timeout") = Undefined
      THEN 30000
      ELSE requests[c].options.timeout.n

\* C28: every request sendRequest made is settled in the end, resolved by
\* a response or rejected, whatever responses, timeouts, close() calls and
\* exit events come
C28_EveryCallSettles ==
  \A c \in 1..MaxSends :
    [](Len(requests) >= c =>
         <>(Len(requests) >= c /\ requests[c].state # "pending"))

\* C29: a stored spec that has an executeSpec call awaiting its request
\* has status executing
C29_ExecutingWhileInFlight ==
  \A id \in executions :
    inflight[id] > 0 => heap[id].status = "executing"

\* C30: with a new server process connected, the exit event of an earlier
\* process leaves the pending-call table, the id counter, the initialized
\* flag and the buffer as they are; and the timer of a request that a
\* close() dropped changes neither the table nor any other request
C30_OldSessionIsInert ==
  [][/\ \A p \in running :
          (server # 0 /\ p # server /\ ServerExit(p)) =>
            /\ responseHandlers' = responseHandlers
            /\ messageId' = messageId
            /\ initialized' = initialized
            /\ buffer' = buffer
     /\ \A c \in 1..Len(requests) :
          (requests[c].dropped = "close" /\ TimerFires(c)) =>
            /\ responseHandlers' = responseHandlers
            /\ \A d \in 1..Len(requests) \ {c} : requests'[d] = requests[d]]_vars

\* C31: for a spec a sweep deleted: an executeSpec call that was in flight
\* returns the result of its own request; no step puts the spec back into
\* the store; and executeSpec called on its id returns not found and
\* requests nothing
C31_SweptWhileInFlight ==
  [][\A id \in DOMAIN heap \ executions :
       /\ id \notin executions'
       /\ \A response \in AxiosResponses :
            ExecuteSpecFinish(id, response) =>
              ret' = Returned("executeSpec", id, OwnResult(id, response))
       /\ ExecuteSpecStart(id) =>
            /\ ret' = Returned("executeSpec", id, NotFoundResult(id))
            /\ remoteCalls' = remoteCalls
            /\ inflight' = inflight]_vars

\* a spec was swept while a call on it was in flight, and the call has
\* returned the success of its request
C31_Witness ==
  /\ ret.op = "executeSpec"
  /\ ret.arg \in DOMAIN heap \ executions
  /\ ret.value.status = "success"
  /\ ret.value.recordCount = MaxObs
  /\ heap[ret.arg].status = "success"

\* C32: when a chunk completes a well-formed response whose id has an
\* entry in the pending-call table, and a line that was discarded (not
\* well-formed, or blank) came before it, in the same chunk or in an
\* earlier one, the request of that entry is resolved with the response and
\* the entry is removed
C32_DiscardedLineIsIsolated ==
  [][\A n \in 1..(Len(stream) - pos) :
       LET lines == CompletedLines(n) IN
       \A i \in 1..Len(lines) :
         (/\ spawned > 0
          /\ Chunk(n)
          /\ WellFormed(lines[i])
          /\ \/ \E j \in 1..(i - 1) : ~WellFormed(lines[j])
             \/ LineCount(SubSeq(stream, 1, pos)) > Len(delivered)
          /\ NoSpace(lines[i])[1].id \in DOMAIN responseHandlers
          /\ \A j \in 1..(i - 1) :
               WellFormed(lines[j]) =>
                 NoSpace(lines[j])[1].id # NoSpace(lines[i])[1].id) =>
              LET id == NoSpace(lines[i])[1].id
                  c == responseHandlers[id]
              IN /\ requests'[c].state = "resolved"
                 /\ requests'[c].value.id = id
                 /\ requests'[c].value.kind = NoSpace(lines[i])[1].kind
                 /\ requests'[c].settles = 1
                 /\ id \notin DOMAIN responseHandlers']_vars

\* the server wrote a line that is not JSON and then the response to the
\* initialize request; both were read, and the request is resolved
C32_Witness ==
  /\ Len(stream) = 5
  /\ SubSeq(stream, 1, 2) = <<Junk, NL>>
  /\ SubSeq(stream, 3, 5) = ResponseLine(1, "result")
  /\ pos = Len(stream)
  /\ Len(requests) = 1
  /\ requests[1].state = "resolved"
  /\ requests[1].value.id = 1
  /\ initialized

\* the text after the last newline of a text
AfterLastNewline(text) ==
  LET ends == {i \in 1..Len(text) : text[i] = NL}
      last == IF ends = {} THEN 0
              ELSE CHOOSE i \in ends : \A j \in ends : j <= i
  IN SubSeq(text, last + 1, Len(text))

\* the segments of a text that a newline ends
Terminated(text) == SubSeq(Split(text), 1, LineCount(text))

\* C33: after each chunk, this.buffer holds no newline and is exactly the
\* text received after the last newline so far, and the responses passed on
\* are those of the segments whose newline has arrived: the segment still
\* open is not among them.
C33_AccumulatorIsOpenSegment ==
  /\ \A i \in 1..Len(buffer) : buffer[i] # NL
  /\ buffer = AfterLastNewline(received)
  /\ delivered = Responses(Terminated(received))
  /\ Len(delivered) <= LineCount(received)

\* a response was passed on, and the opening part of the next message waits
\* in this.buffer for the rest of its line, which the server has written
C33_Witness ==
  /\ buffer = <<Open(1, "result")>>
  /\ delivered # <<>>
  /\ LineCount(received) >= 1
  /\ pos < Len(stream)
  /\ LineCount(SubSeq(stream, pos + 1, Len(stream))) >= 1
\* the tool calls the boundary turns away: a tool the switch does not know,
\* a query_dataset whose datasetId is missing, empty or not a string, an
\* execute_direct without executionId
Rejected ==
  {<<"list_dataflows", [format |-> Str("csv")]>>}
  \cup {<<"query_dataset", args>> : args \in
           {a \in DatasetArgs : Falsy(Get(a, "datasetId"))
                                \/ Get(a, "datasetId").t # "string"}}
  \cup {<<"execute_direct", args>> : args \in
           {a \in ExecuteArgs : Falsy(Get(a, "executionId"))}}

\* C34: a call of an unknown tool, a query_dataset call whose datasetId is
\* missing or not a string, and an execute_direct call without executionId
\* are answered with an Error; they add no spec to the store, change no
\* stored spec, and issue no remote request
C34_RejectedCallChangesNothing ==
  [][\A call \in Rejected :
       CallTool(call[1], call[2]) =>
         /\ ret'.op = "tools/call"
         /\ ret'.arg = call
         /\ ~ret'.ok
         /\ ret'.value[1] = "Error executing tool "
         /\ executions' = executions
         /\ issued' = issued
         /\ heap' = heap
         /\ inflight' = inflight
         /\ remoteCalls' = remoteCalls]_vars

\* a query_dataset call with a number for datasetId was turned away while
\* the store holds a spec whose remote request is under way
C34_Witness ==
  /\ ret = Thrown("tools/call", <<"query_dataset", [datasetId |-> Num(5)]>>,
                  ToolError("query_dataset",
                            "datasetId is required and must be a string"))
  /\ \E id \in executions : heap[id].status = "executing" /\ inflight[id] = 1
\* C35: a generateExecutionSpec call that throws leaves the store as it
\* was: no entry is added, and every stored spec keeps its status, its
\* descriptor and its other fields
C35_FailedGenerateKeepsTheStore ==
  [][(ret'.op = "generateExecutionSpec" /\ ~ret'.ok) =>
       /\ executions' = executions
       /\ DOMAIN heap' = DOMAIN heap
       /\ \A id \in DOMAIN heap :
            /\ heap'[id].status = heap[id].status
            /\ heap'[id].apiCall = heap[id].apiCall
            /\ heap'[id] = heap[id]
       /\ inflight' = inflight
       /\ remoteCalls' = remoteCalls]_vars

\* generateExecutionSpec threw 'Unknown tool' while the store holds a spec
\* whose request is under way
C35_Witness ==
  /\ ret.op = "generateExecutionSpec"
  /\ ~ret.ok
  /\ ret.value = <<"Unknown tool: ", "list_dataflows">>
  /\ \E id \in executions : heap[id].status = "executing" /\ inflight[id] = 1
\* the step is a call of listTools or queryDataset: its promise is the
\* last of requests'
ToolsCalled ==
  /\ Len(requests') = Len(requests) + 1
  /\ requests'[Len(requests')].method \in {"tools/list", "tools/call"}

\* listTools and queryDataset send a request when this.initialized is
\* set, and otherwise throw 'Client not initialized' and send nothing
SendsOnlyInitialized ==
  ToolsCalled =>
    LET call == requests'[Len(requests')] IN
    IF initialized
    THEN /\ call.state = "pending"
         /\ call.id = messageId + 1
         /\ messageId' = messageId + 1
         /\ call.id \in DOMAIN responseHandlers'
         /\ server # 0
    ELSE /\ call.state = "rejected"
         /\ call.value = NotInitialized
         /\ messageId' = messageId
         /\ responseHandlers' = responseHandlers

\* connect() spawns a process only when none is held, and otherwise throws
\* 'Client already connected' and changes nothing
ConnectsOnce ==
  /\ spawned' # spawned => server = 0 /\ server' = spawned'
  /\ (/\ Len(requests') = Len(requests) + 1
      /\ requests'[Len(requests')].method = "connect") =>
        /\ server # 0
        /\ requests'[Len(requests')].state = "rejected"
        /\ requests'[Len(requests')].value = AlreadyConnected
        /\ server' = server
        /\ spawned' = spawned
        /\ connecting' = connecting

\* isConnected() is false after close() and after the exit of the process
\* held, and it turns true only when an initialize request is answered
\* without error while a process is held
FalseWhenGone ==
  /\ Close => ~IsConnected'
  /\ (server \in running /\ ServerExit(server)) => ~IsConnected'
  /\ (~IsConnected /\ IsConnected') =>
       /\ server' # 0
       /\ InitializeDone(requests, requests')

\* isConnected(), once true, stays true as long as the process is held
\* and has not exited
TrueWhileHeld ==
  (IsConnected /\ ~IsConnected') =>
    \/ Close
    \/ server \in running /\ ServerExit(server)

\* C36: listTools and queryDataset send a request only on an initialized
\* client and otherwise fail with 'Client not initialized'; connect() on a
\* client that holds a server process fails with 'Client already
\* connected'; isConnected() turns true when initialization succeeded with
\* a process held, stays true while that process is held and alive, and is
\* false after close() and after the exit of that process
C36_ClientLifecycle ==
  [][/\ SendsOnlyInitialized
     /\ ConnectsOnce
     /\ FalseWhenGone
     /\ TrueWhileHeld]_vars
\* the execute_direct requests sent so far
Seconds ==
  {d \in 1..Len(requests) :
     "tool" \in DOMAIN requests[d] /\ requests[d].tool = "execute_direct"}

\* the response received for request c was written for execution e
AnswersFor(c, e) ==
  /\ requests[c].state = "resolved"
  /\ requests[c].value.id = requests[c].id
  /\ requests[c].value.kind \in {"spec:a", "spec:b"}
  /\ requests[c].value.kind = IF e = Str("a") THEN "spec:a" ELSE "spec:b"

\* C37: an execute_direct request exists only for a queryDataset call whose
\* query_dataset request has been answered, it was sent after that request
\* and carries the executionId of the response to it, and each call sends
\* one at most; queryMultipleDatasets sends the query_dataset requests of
\* all its dataset ids at once, in the order of the array, and resolves
\* with, at position i, the spec and the data of the responses to the two
\* requests made for the i-th dataset id
C37_TwoStepsInOrder ==
  /\ \A d \in Seconds :
       LET c == requests[d].first IN
       /\ c < d
       /\ IsQuery(requests, c)
       /\ requests[c].id < requests[d].id
       /\ AnswersFor(c, requests[d].arg)
       /\ \A other \in Seconds : requests[other].first = c => other = d
  /\ \A batch \in Batches(requests) :
       LET n == Cardinality({c \in 1..Len(requests) :
                   IsQuery(requests, c) /\ requests[c].batch = batch})
           all == PromiseAll(requests, batch)
       IN /\ n = 2
          /\ \E datasetIds \in DatasetBatches : \A i \in 1..n :
               /\ requests[QueryAt(requests, batch, i)].arg = datasetIds[i]
               /\ QueryAt(requests, batch, i) = QueryAt(requests, batch, 1) + i - 1
          /\ all.state = "resolved" =>
               \A i \in 1..n :
                 LET c == QueryAt(requests, batch, i)
                     d == SecondOf(requests, c)
                 IN /\ d # 0
                    /\ AnswersFor(c, all.value[i].executionId)
                    /\ requests[d].arg = all.value[i].executionId
                    /\ requests[d].state = "resolved"
                    /\ requests[d].value.id = requests[d].id
                    /\ all.value[i].data =
                         JSONParse(ContentText(requests[d].value.kind))

\* queryMultipleDatasets(['A', 'B']) has resolved with the spec of
\* execution a at position 1 and the spec of execution b at position 2,
\* each with its data; the response to the query_dataset request of B came
\* first, so that the execute_direct request of B was sent before that of A
C37_Witness ==
  /\ Batches(requests) # {}
  /\ PromiseAll(requests, 1).state = "resolved"
  /\ PromiseAll(requests, 1).value[1].executionId = Str("a")
  /\ Get(PromiseAll(requests, 1).value[1].data, "observations") = Str("x")
  /\ PromiseAll(requests, 1).value[2].executionId = Str("b")
  /\ Get(PromiseAll(requests, 1).value[2].data, "observations") = Str("x")
  /\ SecondOf(requests, QueryAt(requests, 1, 2))
       < SecondOf(requests, QueryAt(requests, 1, 1))
====
